---- MODULE Spec2Model ----
(***************************************************************************)
(* Model of src/bank_system.py: the Account ledger (deposit, withdraw,     *)
(* withdrawals_today, statement), the Bank repository (create_user, auth,  *)
(* create_account, get_account, save, load) and the menu loop of main      *)
(* (choices 1 to 6).                                                       *)
(*                                                                         *)
(* Modelling decisions:                                                    *)
(*  - amounts and balances are Python floats in the source; here they are  *)
(*    exact integers (whole currency units).  Float rounding and the       *)
(*    special values NaN/inf are outside the model.                        *)
(*  - an account number is the integer 100000 + k; the source keeps its    *)
(*    decimal string str(100000 + k), an injective image of it.            *)
(*  - a datetime is [date, us]: the calendar date (a day count) and the    *)
(*    microsecond field; hour, minute and second are left out.             *)
(*    The wall clock never runs backwards, and the microsecond field it    *)
(*    shows is fixed per date (ClockMicros).                               *)
(*  - hash_password is SHA-256 in the source; here an injective tag.       *)
(*  - every exception of the source is a value of the variable err, named  *)
(*    after the error taxonomy; "OK" is a normal return.                   *)
(*  - the JSON text of a document is not modelled, its structure is.       *)
(*                                                                         *)
(*  - an Optional[date] argument is a sequence: << >> for None, <<d>> for  *)
(*    the date d.                                                          *)
(*  - current_user and current_account of main are references (by key) to  *)
(*    objects of the Bank; the menu loop never replaces a stored object.   *)
(*                                                                         *)
(* Five specifications share the actions: Spec (every operation of the     *)
(* Bank, short logs), SpecLedger (one account, long logs, the queries, the *)
(* days pass), SpecRepo (the repository with save and load, beside a       *)
(* document that may be at the path), SpecOld (an account loaded from a    *)
(* document of an older version) and SpecMenu (the menu loop of main).     *)
(***************************************************************************)
EXTENDS Integers, Sequences, FiniteSets, TLC

VARIABLES
    users,      \* Bank.users: cpf -> User
    accounts,   \* Bank.accounts: number -> Account
    today,      \* the calendar date of the wall clock
    file,       \* the persisted document at the path, or NoFile
    op,         \* the method called last ("midnight" when a day passed since)
    err,        \* outcome of that call: "OK" or the error raised
    ret,        \* what the last call returned: None, a reference to the
                \* User / Account object of the Bank that it returned, or
                \* the value of a query
    current_user,     \* main: the User logged in (a reference), or None
    current_account   \* main: the Account selected (a reference), or None

vars == <<users, accounts, today, file, op, err, ret, current_user, current_account>>

\* the locals of the menu loop of main; no method of Account or Bank reads
\* or assigns them
session == <<current_user, current_account>>

\* ------------------------------------------------------------------ bounds
MaxAccounts == 2     \* accounts a Bank holds
MaxBankTx == 2       \* transactions recorded by a Bank, all accounts together
MaxLog == 5          \* length of the log of the account of the ledger runs
MaxDate == 1         \* midnights that pass

CPFs == {"11122233344", "55566677788"}
Names == {"Mari", "Ana"}
Passwords == {"abc123", "xyz"}
\* the (cpf, name, password) arguments of create_user in the runs of the Bank
Registrations == {<<"11122233344", "Mari", "abc123">>, <<"55566677788", "Ana", "xyz">>}
\* the (amount, note) arguments of the deposit calls and of the withdraw calls
DepositCalls == {<<-50, "">>, <<0, "">>, <<600, "pix">>}
WithdrawCalls == {<<-50, "pix">>, <<0, "">>, <<100, "">>, <<600, "">>}
\* the microsecond field the wall clock shows when it is read on date d
ClockMicros(d) == IF d % 2 = 0 THEN 250 ELSE 0

\* ------------------------------------------------------- program constants
DefaultAgency == "0001"
DefaultDailyWithdrawLimit == 3
DefaultPerWithdrawLimitValue == 500
AccountNumberBase == 100000
\* the defaults load gives to a limit that the document leaves out
LoadDailyWithdrawLimit == 3
LoadPerWithdrawLimitValue == 500

NoFile == [exists |-> FALSE]                 \* no file at the path
None == [type |-> "None"]
UserRef(cpf) == [type |-> "User", key |-> cpf]          \* the object users[cpf]
AccountRef(n) == [type |-> "Account", key |-> n]        \* the object accounts[n]
EmptyMap == [k \in {} |-> 0]

\* dict assignment d[k] = v
Put(d, k, v) == [x \in (DOMAIN d) \cup {k} |-> IF x = k THEN v ELSE d[x]]

RECURSIVE SumAmounts(_)
SumAmounts(txs) ==
    IF txs = << >> THEN 0
    ELSE SumAmounts(SubSeq(txs, 1, Len(txs) - 1)) + txs[Len(txs)].amount

\* --------------------------------------------------------------- utilities
hash_password(pwd) == <<"sha256", pwd>>

now(d) == [date |-> d, us |-> ClockMicros(d)]

\* -------------------------------------------------------------------- model
Transaction(kind, amount, timestamp, note) ==
    [kind |-> kind, amount |-> amount, timestamp |-> timestamp, note |-> note]

Account(number, owner_cpf) ==
    [number |-> number, agency |-> DefaultAgency, owner_cpf |-> owner_cpf,
     balance |-> 0, transactions |-> << >>,
     daily_withdraw_limit |-> DefaultDailyWithdrawLimit,
     per_withdraw_limit_value |-> DefaultPerWithdrawLimitValue]

User(cpf, name, password_hash) ==
    [cpf |-> cpf, name |-> name, password_hash |-> password_hash, accounts |-> << >>]

Init ==
    /\ users = EmptyMap
    /\ accounts = EmptyMap
    /\ today = 0
    /\ file = NoFile
    /\ op = "__init__"
    /\ err = "OK"
    /\ ret = None
    /\ current_user = None
    /\ current_account = None

TotalTx == LET RECURSIVE Tot(_)
               Tot(S) == IF S = {} THEN 0
                         ELSE LET n == CHOOSE x \in S : TRUE
                              IN Len(accounts[n].transactions) + Tot(S \ {n})
           IN Tot(DOMAIN accounts)

\* ------------------------------------------------------------------ Account
deposited_balance_only(a, amount, ts, note) ==
    [a EXCEPT !.balance = @ + amount]

deposited_at_head(a, amount, ts, note) ==
    [a EXCEPT !.balance = @ + amount,
              !.transactions = <<Transaction("DEPOSITO", amount, ts, note)>> \o @]

\* the account after lines 58-59
deposited(a, amount, ts, note) ==
    [a EXCEPT !.balance = @ + amount,
              !.transactions = Append(@, Transaction("DEPOSITO", amount, ts, note))]

deposit_update_before_check(n, amount, note) ==
    /\ n \in DOMAIN accounts
    /\ op' = "deposit"
    /\ ret' = None
    /\ accounts' = [accounts EXCEPT ![n] = deposited(@, amount, now(today), note)]
    /\ err' = IF amount <= 0 THEN "InvalidAmount" ELSE "OK"
    /\ UNCHANGED <<users, today, file>>

deposit_every_account(n, amount, note) ==
    /\ n \in DOMAIN accounts
    /\ op' = "deposit"
    /\ ret' = None
    /\ IF amount <= 0
       THEN /\ err' = "InvalidAmount"
            /\ UNCHANGED <<users, accounts, today, file>>
       ELSE /\ accounts' = [m \in DOMAIN accounts |->
                               deposited(accounts[m], amount, now(today), note)]
            /\ err' = "OK"
            /\ UNCHANGED <<users, today, file>>

deposit_accepts_zero(n, amount, note) ==
    /\ n \in DOMAIN accounts
    /\ op' = "deposit"
    /\ ret' = None
    /\ IF amount < 0
       THEN /\ err' = "InvalidAmount"
            /\ UNCHANGED <<users, accounts, today, file>>
       ELSE /\ accounts' = [accounts EXCEPT ![n] = deposited(@, amount, now(today), note)]
            /\ err' = "OK"
            /\ UNCHANGED <<users, today, file>>

deposit(n, amount, note) ==
    /\ n \in DOMAIN accounts
    /\ op' = "deposit"
    /\ ret' = None
    /\ IF amount <= 0
       THEN /\ err' = "InvalidAmount"
            /\ UNCHANGED <<users, accounts, today, file>>
       ELSE /\ accounts' = [accounts EXCEPT ![n] = deposited(@, amount, now(today), note)]
            /\ err' = "OK"
            /\ UNCHANGED <<users, today, file>>

withdrawals_on(a, d) ==
    Cardinality({i \in DOMAIN a.transactions :
                    /\ a.transactions[i].kind = "SAQUE"
                    /\ a.transactions[i].timestamp.date = d})

withdrawals_today_all_dates(a) ==
    Cardinality({i \in DOMAIN a.transactions : a.transactions[i].kind = "SAQUE"})

withdrawals_today(a) == withdrawals_on(a, today)

withdraw_error_limit_off_by_one(a, amount) ==
    IF amount <= 0 THEN "InvalidAmount"
    ELSE IF amount > a.balance THEN "InsufficientFunds"
    ELSE IF amount > a.per_withdraw_limit_value THEN "PerOperationLimitExceeded"
    ELSE IF withdrawals_today(a) > a.daily_withdraw_limit THEN "DailyLimitExceeded"
    ELSE "OK"

withdraw_error_no_funds_check(a, amount) ==
    IF amount <= 0 THEN "InvalidAmount"
    ELSE IF amount > a.per_withdraw_limit_value THEN "PerOperationLimitExceeded"
    ELSE IF withdrawals_today(a) >= a.daily_withdraw_limit THEN "DailyLimitExceeded"
    ELSE "OK"

withdraw_error_no_value_limit(a, amount) ==
    IF amount <= 0 THEN "InvalidAmount"
    ELSE IF amount > a.balance THEN "InsufficientFunds"
    ELSE IF withdrawals_today(a) >= a.daily_withdraw_limit THEN "DailyLimitExceeded"
    ELSE "OK"

withdraw_error_limit_first(a, amount) ==
    IF amount <= 0 THEN "InvalidAmount"
    ELSE IF amount > a.per_withdraw_limit_value THEN "PerOperationLimitExceeded"
    ELSE IF amount > a.balance THEN "InsufficientFunds"
    ELSE IF withdrawals_today(a) >= a.daily_withdraw_limit THEN "DailyLimitExceeded"
    ELSE "OK"

\* the checks of lines 66-73, in their order: the error raised, or "OK"
withdraw_error(a, amount) ==
    IF amount <= 0 THEN "InvalidAmount"
    ELSE IF amount > a.balance THEN "InsufficientFunds"
    ELSE IF amount > a.per_withdraw_limit_value THEN "PerOperationLimitExceeded"
    ELSE IF withdrawals_today(a) >= a.daily_withdraw_limit THEN "DailyLimitExceeded"
    ELSE "OK"

withdrawn_log_positive(a, amount, ts, note) ==
    [a EXCEPT !.balance = @ - amount,
              !.transactions = Append(@, Transaction("SAQUE", amount, ts, note))]

\* the account after lines 74-75
withdrawn(a, amount, ts, note) ==
    [a EXCEPT !.balance = @ - amount,
              !.transactions = Append(@, Transaction("SAQUE", -amount, ts, note))]

\* stamp is the date now() reads when the Transaction is built (line 75); it is
\* read after date.today() (line 62), so midnight may have passed in between.
withdraw(n, amount, note, stamp) ==
    /\ n \in DOMAIN accounts
    /\ op' = "withdraw"
    /\ ret' = None
    /\ err' = withdraw_error(accounts[n], amount)
    /\ IF err' # "OK"
       THEN UNCHANGED <<users, accounts, today, file>>
       ELSE /\ stamp \in {today, today + 1}
            /\ accounts' = [accounts EXCEPT ![n] = withdrawn(@, amount, now(stamp), note)]
            /\ today' = stamp
            /\ UNCHANGED <<users, file>>

\* the method withdrawals_today called as a query
withdrawals_today_query(n) ==
    /\ n \in DOMAIN accounts
    /\ op' = "withdrawals_today"
    /\ err' = "OK"
    /\ ret' = [type |-> "int", value |-> withdrawals_today(accounts[n])]
    /\ UNCHANGED <<users, accounts, today, file>>

\* Optional[date]: None is << >>, the date d is <<d>>; a date is always truthy
statement_txs_end_exclusive(a, start, end) ==
    LET txs1 == IF start # << >>
                THEN SelectSeq(a.transactions, LAMBDA t : t.timestamp.date >= start[1])
                ELSE a.transactions
    IN IF end # << >>
       THEN SelectSeq(txs1, LAMBDA t : t.timestamp.date < end[1])
       ELSE txs1

\* txs after lines 78-82
statement_txs(a, start, end) ==
    LET txs1 == IF start # << >>
                THEN SelectSeq(a.transactions, LAMBDA t : t.timestamp.date >= start[1])
                ELSE a.transactions
    IN IF end # << >>
       THEN SelectSeq(txs1, LAMBDA t : t.timestamp.date <= end[1])
       ELSE txs1

statement(n, start, end) ==
    /\ n \in DOMAIN accounts
    /\ op' = "statement"
    /\ err' = "OK"
    /\ ret' = LET txs == statement_txs(accounts[n], start, end)
              IN [type |-> "statement", txs |-> txs, balance |-> SumAmounts(txs)]
    /\ UNCHANGED <<users, accounts, today, file>>

\* --------------------------------------------------------------------- Bank
create_user_overwrite(cpf, name, password) ==
    /\ op' = "create_user"
    /\ ret' = None
    /\ users' = Put(users, cpf, User(cpf, name, hash_password(password)))
    /\ err' = "OK"
    /\ UNCHANGED <<accounts, today, file>>

create_user(cpf, name, password) ==
    /\ op' = "create_user"
    /\ ret' = None
    /\ IF cpf \in DOMAIN users
       THEN /\ err' = "DuplicateUser"
            /\ UNCHANGED <<users, accounts, today, file>>
       ELSE /\ users' = Put(users, cpf, User(cpf, name, hash_password(password)))
            /\ err' = "OK"
            /\ UNCHANGED <<accounts, today, file>>

auth_any_password(cpf, password) ==
    /\ op' = "auth"
    /\ IF cpf \notin DOMAIN users
       THEN err' = "AuthenticationFailed" /\ ret' = None
       ELSE err' = "OK" /\ ret' = UserRef(cpf)
    /\ UNCHANGED <<users, accounts, today, file>>

auth(cpf, password) ==
    /\ op' = "auth"
    /\ IF cpf \notin DOMAIN users \/ users[cpf].password_hash # hash_password(password)
       THEN err' = "AuthenticationFailed" /\ ret' = None
       ELSE err' = "OK" /\ ret' = UserRef(cpf)
    /\ UNCHANGED <<users, accounts, today, file>>

next_number == AccountNumberBase + Cardinality(DOMAIN accounts) + 1

create_account_not_listed(owner_cpf) ==
    /\ op' = "create_account"
    /\ IF owner_cpf \notin DOMAIN users
       THEN /\ err' = "UnknownUser"
            /\ ret' = None
            /\ UNCHANGED <<users, accounts, today, file>>
       ELSE /\ accounts' = Put(accounts, next_number, Account(next_number, owner_cpf))
            /\ err' = "OK"
            /\ ret' = AccountRef(next_number)
            /\ UNCHANGED <<users, today, file>>

create_account(owner_cpf) ==
    /\ op' = "create_account"
    /\ IF owner_cpf \notin DOMAIN users
       THEN /\ err' = "UnknownUser"
            /\ ret' = None
            /\ UNCHANGED <<users, accounts, today, file>>
       ELSE /\ accounts' = Put(accounts, next_number, Account(next_number, owner_cpf))
            /\ users' = [users EXCEPT ![owner_cpf].accounts = Append(@, next_number)]
            /\ err' = "OK"
            /\ ret' = AccountRef(next_number)
            /\ UNCHANGED <<today, file>>

get_account(number) ==
    /\ op' = "get_account"
    /\ IF number \notin DOMAIN accounts
       THEN err' = "AccountNotFound" /\ ret' = None
       ELSE err' = "OK" /\ ret' = AccountRef(number)
    /\ UNCHANGED <<users, accounts, today, file>>

\* -------------------------------------------------------------- persistence
\* dict.get(k, default)
Get(d, k, default) == IF k \in DOMAIN d THEN d[k] ELSE default

isoformat_to_the_second(ts) == <<ts.date>>

\* datetime.isoformat(): the microseconds are written only when not zero
isoformat(ts) == IF ts.us = 0 THEN <<ts.date>> ELSE <<ts.date, ts.us>>

\* datetime.fromisoformat(): microseconds left out read as zero
fromisoformat(str) == [date |-> str[1], us |-> IF Len(str) > 1 THEN str[2] ELSE 0]

serialize_transaction(t) ==
    [kind |-> t.kind, amount |-> t.amount,
     timestamp |-> isoformat(t.timestamp), note |-> t.note]

serialize_account(a) ==
    [number |-> a.number, agency |-> a.agency, owner_cpf |-> a.owner_cpf,
     balance |-> a.balance,
     transactions |-> [i \in DOMAIN a.transactions |->
                           serialize_transaction(a.transactions[i])],
     daily_withdraw_limit |-> a.daily_withdraw_limit,
     per_withdraw_limit_value |-> a.per_withdraw_limit_value]

serialize_user(u) ==
    [cpf |-> u.cpf, name |-> u.name, password_hash |-> u.password_hash,
     accounts |-> u.accounts]

\* the document save writes for a Bank holding us and as
save_data(us, as) ==
    [users |-> [cpf \in DOMAIN us |-> serialize_user(us[cpf])],
     accounts |-> [n \in DOMAIN as |-> serialize_account(as[n])]]

load_transaction(t) ==
    Transaction(t.kind, t.amount, fromisoformat(t.timestamp), Get(t, "note", ""))

load_account_limits_required(ad) ==
    [number |-> ad.number, agency |-> ad.agency, owner_cpf |-> ad.owner_cpf,
     balance |-> ad.balance,
     transactions |-> [i \in DOMAIN ad.transactions |->
                           load_transaction(ad.transactions[i])],
     daily_withdraw_limit |-> Get(ad, "daily_withdraw_limit", 0),
     per_withdraw_limit_value |-> Get(ad, "per_withdraw_limit_value", 0)]

load_account(ad) ==
    [number |-> ad.number, agency |-> ad.agency, owner_cpf |-> ad.owner_cpf,
     balance |-> ad.balance,
     transactions |-> [i \in DOMAIN ad.transactions |->
                           load_transaction(ad.transactions[i])],
     daily_withdraw_limit |->
         Get(ad, "daily_withdraw_limit", LoadDailyWithdrawLimit),
     per_withdraw_limit_value |->
         Get(ad, "per_withdraw_limit_value", LoadPerWithdrawLimitValue)]

load_user(ud) ==
    [cpf |-> ud.cpf, name |-> ud.name, password_hash |-> ud.password_hash,
     accounts |-> Get(ud, "accounts", << >>)]

\* the users and the accounts load builds from a document
load_users(data) ==
    LET ud == Get(data, "users", EmptyMap)
    IN [cpf \in DOMAIN ud |-> load_user(ud[cpf])]

load_accounts(data) ==
    LET ad == Get(data, "accounts", EmptyMap)
    IN [n \in DOMAIN ad |-> load_account(ad[n])]

save ==
    /\ op' = "save"
    /\ file' = save_data(users, accounts)
    /\ err' = "OK"
    /\ ret' = None
    /\ UNCHANGED <<users, accounts, today>>
    /\ UNCHANGED session

load ==
    /\ op' = "load"
    /\ err' = "OK"
    /\ ret' = None
    /\ IF file = NoFile
       THEN UNCHANGED <<users, accounts, today, file>>
       ELSE /\ users' = load_users(file)
            /\ accounts' = load_accounts(file)
            /\ UNCHANGED <<today, file>>
    /\ UNCHANGED session

\* -------------------------------------------------------------- environment
\* midnight passes
Tick ==
    /\ today < MaxDate
    /\ today' = today + 1
    /\ op' = "midnight"
    /\ err' = "OK"
    /\ ret' = None
    /\ UNCHANGED <<users, accounts, file>>
    /\ UNCHANGED session

AccountNumbers == (AccountNumberBase + 1) .. (AccountNumberBase + MaxAccounts + 1)

\* a call that records a transaction needs room within the bound
Room(bound) == err' = "OK" => TotalTx < bound /\ today' <= MaxDate

Deposit == \E n \in AccountNumbers, c \in DepositCalls :
               deposit(n, c[1], c[2]) /\ Room(MaxBankTx) /\ UNCHANGED session
Withdraw == \E n \in AccountNumbers, c \in WithdrawCalls, stamp \in {today, today + 1} :
               withdraw(n, c[1], c[2], stamp) /\ Room(MaxBankTx) /\ UNCHANGED session
CreateUser == \E r \in Registrations :
                  create_user(r[1], r[2], r[3]) /\ UNCHANGED session
Auth == \E c \in CPFs, p \in Passwords : auth(c, p) /\ UNCHANGED session
\* account numbers held by the users, all lists together
Listed == LET RECURSIVE Tot(_)
              Tot(S) == IF S = {} THEN 0
                        ELSE LET c == CHOOSE x \in S : TRUE
                             IN Len(users[c].accounts) + Tot(S \ {c})
          IN Tot(DOMAIN users)

CreateAccount == \E c \in CPFs :
    /\ create_account(c)
    /\ err' = "OK" => Cardinality(DOMAIN accounts) < MaxAccounts /\ Listed < MaxAccounts
    /\ UNCHANGED session
GetAccount == \E n \in AccountNumbers : get_account(n) /\ UNCHANGED session

Next ==
    \/ CreateUser
    \/ Auth
    \/ CreateAccount
    \/ GetAccount
    \/ Deposit
    \/ Withdraw
    \/ Tick

\* the Bank: every operation of the repository and of the ledger
Spec == Init /\ [][Next]_vars

\* ------------------------------------------------------------- ledger runs
\* One account, as create_user and create_account leave it, then any
\* sequence of deposit and withdraw calls while the days pass.
LedgerCpf == "11122233344"
LedgerNumber == AccountNumberBase + 1

InitLedger ==
    /\ users = Put(EmptyMap, LedgerCpf,
                   [User(LedgerCpf, "Mari", hash_password("abc123"))
                       EXCEPT !.accounts = <<LedgerNumber>>])
    /\ accounts = Put(EmptyMap, LedgerNumber, Account(LedgerNumber, LedgerCpf))
    /\ today = 0
    /\ file = NoFile
    /\ op = "__init__"
    /\ err = "OK"
    /\ ret = None
    /\ current_user = None
    /\ current_account = None

LedgerDeposit == \E c \in DepositCalls :
    deposit(LedgerNumber, c[1], c[2]) /\ Room(MaxLog) /\ UNCHANGED session
LedgerWithdraw == \E c \in WithdrawCalls, stamp \in {today, today + 1} :
    withdraw(LedgerNumber, c[1], c[2], stamp) /\ Room(MaxLog) /\ UNCHANGED session

\* the start and end arguments of the statement calls
StatementBounds == {<< >>} \cup {<<d>> : d \in 0 .. MaxDate}

LedgerWithdrawalsToday == withdrawals_today_query(LedgerNumber) /\ UNCHANGED session
LedgerStatement == \E start \in StatementBounds, end \in StatementBounds :
    statement(LedgerNumber, start, end) /\ UNCHANGED session

NextLedger ==
    \/ LedgerDeposit
    \/ LedgerWithdraw
    \/ LedgerWithdrawalsToday
    \/ LedgerStatement
    \/ Tick

SpecLedger == InitLedger /\ [][NextLedger]_vars

\* ------------------------------------------------------- claims: the ledger
\* the withdraw calls: the account, the (amount, note) and the date stamped
LedgerCalls ==
    IF op' = "withdraw"
    THEN {<<n, c, stamp>> : n \in DOMAIN accounts, c \in WithdrawCalls, stamp \in {today, today + 1}}
    ELSE {}
\* the step is the call withdraw(amount, note) on the account k[1]
IsWithdraw(k) == withdraw(k[1], k[2][1], k[2][2], k[3])
\* the account and the amount of the call k
Acc(k) == accounts[k[1]]
Amt(k) == k[2][1]

\* C1: the cached balance of every account equals the sum of the amounts of
\* the transactions in its log, whatever deposit and withdraw calls were made.
C1_BalanceIsSumOfLog ==
    \A n \in DOMAIN accounts :
        accounts[n].balance = SumAmounts(accounts[n].transactions)

\* a log with a deposit and a withdrawal, just after a call that failed
C1_Witness ==
    \E n \in DOMAIN accounts :
        /\ \E i \in DOMAIN accounts[n].transactions :
               accounts[n].transactions[i].kind = "SAQUE"
        /\ accounts[n].balance > 0
        /\ op = "withdraw"
        /\ err = "InsufficientFunds"

\* today's withdrawals of every account are at most its daily limit
WithdrawalsTodayWithinLimit ==
    \A n \in DOMAIN accounts :
        withdrawals_today(accounts[n]) <= accounts[n].daily_withdraw_limit

\* C2 as stated: today's withdrawals never exceed daily_withdraw_limit, and
\* once the limit is reached every further withdraw attempt of that date
\* fails with DailyLimitExceeded.
C2_EveryAttemptFailsDailyLimit ==
    [][\A k \in LedgerCalls :
          IsWithdraw(k) /\ withdrawals_today(Acc(k)) >= Acc(k).daily_withdraw_limit
              => err' = "DailyLimitExceeded"]_vars

\* C2 amended: today's withdrawals never exceed daily_withdraw_limit, and once
\* the limit is reached every further withdraw attempt of that date fails and
\* records nothing: with DailyLimitExceeded when the amount passes the three
\* earlier checks, with the error of the first check it fails otherwise.
C2_DailyLimit ==
    /\ []WithdrawalsTodayWithinLimit
    /\ [][\A k \in LedgerCalls :
             IsWithdraw(k) /\ withdrawals_today(Acc(k)) >= Acc(k).daily_withdraw_limit
                 => /\ err' # "OK"
                    /\ accounts' = accounts
                    /\ (/\ 0 < Amt(k)
                        /\ Amt(k) <= Acc(k).balance
                        /\ Amt(k) <= Acc(k).per_withdraw_limit_value)
                           => err' = "DailyLimitExceeded"]_vars

\* the limit was reached today and a further attempt was refused for it
C2_Witness ==
    \E n \in DOMAIN accounts :
        /\ withdrawals_today(accounts[n]) = accounts[n].daily_withdraw_limit
        /\ err = "DailyLimitExceeded"

\* every withdrawal of the account a is of a date before today
NoWithdrawalSince(a) ==
    \A i \in DOMAIN a.transactions :
        a.transactions[i].kind = "SAQUE" => a.transactions[i].timestamp.date < today

\* C3: the daily cap resets with the date: when the limit was reached on the
\* date before today and no withdrawal was made since, a withdraw of an amount
\* within the balance and the per-operation limit succeeds.
C3_LimitResetsWithDate ==
    [][\A k \in LedgerCalls :
          (/\ IsWithdraw(k)
           /\ withdrawals_on(Acc(k), today - 1) >= Acc(k).daily_withdraw_limit
           /\ NoWithdrawalSince(Acc(k))
           /\ 0 < Amt(k)
           /\ Amt(k) <= Acc(k).balance
           /\ Amt(k) <= Acc(k).per_withdraw_limit_value)
              => /\ err' = "OK"
                 /\ accounts'[k[1]].balance = Acc(k).balance - Amt(k)
                 /\ Len(accounts'[k[1]].transactions) = Len(Acc(k).transactions) + 1]_vars

\* the limit was reached yesterday and a withdrawal of today is in the log
C3_Witness ==
    \E n \in DOMAIN accounts :
        /\ today >= 1
        /\ withdrawals_on(accounts[n], today - 1) >= accounts[n].daily_withdraw_limit
        /\ withdrawals_today(accounts[n]) >= 1
        /\ op = "withdraw"
        /\ err = "OK"

BalanceNotNegative == \A n \in DOMAIN accounts : accounts[n].balance >= 0

\* C4: no balance is ever negative, and a withdraw of more than the balance
\* fails with InsufficientFunds and changes neither balance nor log.
C4_NoOverdraft ==
    /\ []BalanceNotNegative
    /\ [][\A k \in LedgerCalls :
             IsWithdraw(k) /\ Amt(k) > Acc(k).balance
                 => err' = "InsufficientFunds" /\ accounts' = accounts]_vars

\* a withdraw of more than a positive balance was refused
C4_Witness ==
    \E n \in DOMAIN accounts :
        /\ accounts[n].balance > 0
        /\ accounts[n].transactions # << >>
        /\ err = "InsufficientFunds"

Abs(x) == IF x < 0 THEN -x ELSE x

WithdrawalsWithinValueLimit ==
    \A n \in DOMAIN accounts : \A i \in DOMAIN accounts[n].transactions :
        accounts[n].transactions[i].kind = "SAQUE"
            => Abs(accounts[n].transactions[i].amount) <= accounts[n].per_withdraw_limit_value

\* C5: a withdraw of more than per_withdraw_limit_value that the balance
\* covers fails with PerOperationLimitExceeded, and no withdrawal in any log
\* is of more than per_withdraw_limit_value.
C5_PerOperationLimit ==
    /\ []WithdrawalsWithinValueLimit
    /\ [][\A k \in LedgerCalls :
             (/\ IsWithdraw(k)
              /\ Amt(k) > Acc(k).per_withdraw_limit_value
              /\ Amt(k) <= Acc(k).balance)
                 => err' = "PerOperationLimitExceeded" /\ accounts' = accounts]_vars

\* a withdraw above the limit was refused though the balance covered it
C5_Witness ==
    \E n \in DOMAIN accounts :
        /\ accounts[n].balance > accounts[n].per_withdraw_limit_value
        /\ err = "PerOperationLimitExceeded"

\* the preconditions of withdraw in the order of the contract
CheckOrder ==
    <<"InvalidAmount", "InsufficientFunds", "PerOperationLimitExceeded", "DailyLimitExceeded">>

Violates(e, a, amount) ==
    CASE e = "InvalidAmount" -> amount <= 0
      [] e = "InsufficientFunds" -> amount > a.balance
      [] e = "PerOperationLimitExceeded" -> amount > a.per_withdraw_limit_value
      [] e = "DailyLimitExceeded" -> withdrawals_today(a) >= a.daily_withdraw_limit

ViolatedChecks(a, amount) == {i \in DOMAIN CheckOrder : Violates(CheckOrder[i], a, amount)}

\* C6: withdraw reports exactly the first violated precondition in the order
\* InvalidAmount, InsufficientFunds, PerOperationLimitExceeded,
\* DailyLimitExceeded, and succeeds if and only if none is violated.
C6_FirstViolatedCheck ==
    [][\A k \in LedgerCalls :
          IsWithdraw(k) =>
              LET bad == ViolatedChecks(Acc(k), Amt(k))
              IN /\ bad # {} =>
                     /\ \E i \in bad : /\ \A j \in bad : i <= j
                                       /\ err' = CheckOrder[i]
                     /\ accounts' = accounts
                 /\ bad = {} =>
                     /\ err' = "OK"
                     /\ accounts'[k[1]].balance = Acc(k).balance - Amt(k)]_vars

\* a withdraw of 600 failed for the balance although it is above the
\* per-operation limit too
C6_Witness ==
    \E n \in DOMAIN accounts :
        /\ accounts[n].balance >= 100
        /\ accounts[n].balance < 600
        /\ err = "InsufficientFunds"

\* the entries of txs dated within [start, end], in the order of txs
RECURSIVE Window(_, _, _)
Window(txs, start, end) ==
    IF txs = << >> THEN << >>
    ELSE LET d == Head(txs).timestamp.date
             rest == Window(Tail(txs), start, end)
         IN IF (start = << >> \/ start[1] <= d) /\ (end = << >> \/ d <= end[1])
            THEN <<Head(txs)>> \o rest
            ELSE rest

\* C12: statement(start, end) returns the transactions of the log dated
\* within [start, end] (an absent bound is open), in log order, and the sum
\* of the amounts of exactly those; it leaves the account as it was, and with
\* both bounds absent the sum is the balance of the account.
C12_StatementIsWindowOfLog ==
    [][op' = "statement" =>
          /\ \A n \in DOMAIN accounts, start \in StatementBounds, end \in StatementBounds :
                 statement(n, start, end) =>
                     /\ ret'.txs = Window(accounts[n].transactions, start, end)
                     /\ ret'.balance = SumAmounts(Window(accounts[n].transactions, start, end))
                     /\ (start = << >> /\ end = << >>) => ret'.balance = accounts[n].balance
          /\ accounts' = accounts
          /\ users' = users]_vars

\* a statement returned a part of a log that spans two dates, and a sum
\* that is not the balance
C12_Witness ==
    /\ op = "statement"
    /\ \E n \in DOMAIN accounts :
           LET txs == accounts[n].transactions
           IN /\ \E i, j \in DOMAIN txs : txs[i].timestamp.date # txs[j].timestamp.date
              /\ ret.txs # << >>
              /\ Len(ret.txs) < Len(txs)
              /\ ret.balance # accounts[n].balance

IsPrefix(s, t) == Len(s) <= Len(t) /\ SubSeq(t, 1, Len(s)) = s

\* C13: the log of an account is append-only: a successful deposit or
\* withdraw appends exactly one transaction at the end and leaves the earlier
\* entries and their order as they were; a failed call and the queries
\* withdrawals_today and statement leave the log as it was; so the log of an
\* earlier state is a prefix of the log of every later state.
C13_LogIsAppendOnly ==
    [][/\ \A n \in DOMAIN accounts :
              /\ n \in DOMAIN accounts'
              /\ IsPrefix(accounts[n].transactions, accounts'[n].transactions)
       /\ IF op' \in {"deposit", "withdraw"} /\ err' = "OK"
          THEN \E n \in DOMAIN accounts :
                   /\ Len(accounts'[n].transactions) = Len(accounts[n].transactions) + 1
                   /\ accounts'[n].transactions[Len(accounts'[n].transactions)].kind =
                          (IF op' = "deposit" THEN "DEPOSITO" ELSE "SAQUE")
          ELSE \A n \in DOMAIN accounts :
                   accounts'[n].transactions = accounts[n].transactions]_vars

\* a withdrawal was appended to a log that began with a deposit and held
\* three entries at least, and a query was made since
C13_Witness ==
    /\ op \in {"statement", "withdrawals_today"}
    /\ \E n \in DOMAIN accounts :
           LET txs == accounts[n].transactions
           IN /\ Len(txs) >= 4
              /\ txs[1].kind = "DEPOSITO"
              /\ txs[Len(txs)].kind = "SAQUE"

\* every DEPOSITO is of a positive amount and every SAQUE of a negative one
KindsMatchSigns ==
    \A n \in DOMAIN accounts : \A i \in DOMAIN accounts[n].transactions :
        LET t == accounts[n].transactions[i]
        IN \/ t.kind = "DEPOSITO" /\ t.amount > 0
           \/ t.kind = "SAQUE" /\ t.amount < 0

\* C14: every transaction of every log is a DEPOSITO of an amount > 0 or a
\* SAQUE of an amount < 0, and a successful withdraw of a records the
\* amount -a and lowers the balance by a.
C14_SignedAmounts ==
    /\ []KindsMatchSigns
    /\ [][\A k \in LedgerCalls :
             IsWithdraw(k) /\ err' = "OK" =>
                 LET txs == accounts'[k[1]].transactions
                 IN /\ Len(txs) = Len(Acc(k).transactions) + 1
                    /\ txs[Len(txs)].kind = "SAQUE"
                    /\ txs[Len(txs)].amount = -Amt(k)
                    /\ accounts'[k[1]].balance = Acc(k).balance - Amt(k)]_vars

\* a withdraw of 100 succeeded on an account that keeps a positive balance
C14_Witness ==
    /\ op = "withdraw"
    /\ err = "OK"
    /\ \E n \in DOMAIN accounts :
           LET txs == accounts[n].transactions
           IN /\ txs # << >>
              /\ txs[Len(txs)].amount = -100
              /\ accounts[n].balance > 0

\* --------------------------------------------------------- repository runs
\* The repository alone, started beside whatever document the path holds:
\* users and accounts are created and looked up, the Bank is saved and loaded.

\* A document that save did not write for this Bank: its one account is
\* numbered 100002 (the account 100001 is not in it).
DocGap ==
    LET c == "11122233344"
        n == AccountNumberBase + 2
    IN [users |-> Put(EmptyMap, c,
                      [cpf |-> c, name |-> "Mari",
                       password_hash |-> hash_password("abc123"),
                       accounts |-> <<n>>]),
        accounts |-> Put(EmptyMap, n,
                      [number |-> n, agency |-> DefaultAgency, owner_cpf |-> c,
                       balance |-> 100,
                       transactions |-> <<[kind |-> "DEPOSITO", amount |-> 100,
                                           timestamp |-> <<0, 250>>, note |-> "pix"]>>,
                       daily_withdraw_limit |-> DefaultDailyWithdrawLimit,
                       per_withdraw_limit_value |-> DefaultPerWithdrawLimitValue])]

Documents == {DocGap}

InitRepo ==
    /\ users = EmptyMap
    /\ accounts = EmptyMap
    /\ today = 0
    /\ file \in {NoFile} \cup Documents
    /\ op = "__init__"
    /\ err = "OK"
    /\ ret = None
    /\ current_user = None
    /\ current_account = None

RepoCreateUser == \E c \in CPFs, nm \in Names, p \in Passwords :
                      create_user(c, nm, p) /\ UNCHANGED session

NextRepo ==
    \/ RepoCreateUser
    \/ Auth
    \/ CreateAccount
    \/ GetAccount
    \/ save
    \/ load

SpecRepo == InitRepo /\ [][NextRepo]_vars

\* --------------------------------------------------- claims: the repository
BankUnchanged == users' = users /\ accounts' = accounts

KnownNumbers ==
    DOMAIN accounts \cup
    UNION {{users[c].accounts[i] : i \in DOMAIN users[c].accounts} : c \in DOMAIN users}

\* C8: a successful create_account returns a number that was no key of
\* accounts and is greater than every number issued before; no Account is
\* replaced and accounts grows by exactly one.
C8_NewAccountNumberIsFresh ==
    [][(\E c \in CPFs : create_account(c)) /\ err' = "OK" =>
          /\ ret'.key \notin DOMAIN accounts
          /\ \A n \in KnownNumbers : ret'.key > n
          /\ \A n \in DOMAIN accounts : n \in DOMAIN accounts' /\ accounts'[n] = accounts[n]
          /\ Cardinality(DOMAIN accounts') = Cardinality(DOMAIN accounts) + 1]_vars

\* C9: create_user of a registered cpf fails with DuplicateUser and leaves
\* the users as they were, and no create_user call changes a User stored
\* before: each cpf keeps the User of the first successful call.
C9_DuplicateUserRejected ==
    [][/\ \A c \in CPFs, nm \in Names, p \in Passwords :
              create_user(c, nm, p) /\ c \in DOMAIN users
                  => err' = "DuplicateUser" /\ users' = users
       /\ op' = "create_user" =>
              \A c \in DOMAIN users : c \in DOMAIN users' /\ users'[c] = users[c]]_vars

\* a second create_user of a cpf was refused, its user holding an account
C9_Witness ==
    /\ op = "create_user"
    /\ err = "DuplicateUser"
    /\ \E c \in DOMAIN users : users[c].accounts # << >>

\* C10: saving the Bank and loading the document saved gives back the same
\* users and the same accounts, field by field.
C10_SaveLoadRoundTrip ==
    /\ load_users(save_data(users, accounts)) = users
    /\ load_accounts(save_data(users, accounts)) = accounts

\* two users, and an account whose log holds a timestamp with microseconds,
\* one without, and a note
C10_Witness ==
    /\ Cardinality(DOMAIN users) = 2
    /\ \E n \in DOMAIN accounts :
          LET txs == accounts[n].transactions
          IN /\ \E i \in DOMAIN txs : txs[i].timestamp.us = 0
             /\ \E i \in DOMAIN txs : txs[i].timestamp.us # 0
             /\ \E i \in DOMAIN txs : txs[i].note # ""

\* the places <<cpf, i>> of the lists of the users that hold the number n
ListedAt(n) ==
    {p \in UNION {{<<c, i>> : i \in DOMAIN users[c].accounts} : c \in DOMAIN users} :
        users[p[1]].accounts[p[2]] = n}

\* C16: users and accounts refer to each other consistently: the owner_cpf
\* of every account is a registered cpf, every number in the list of a user
\* is the key of an account owned by that user, every account number is in
\* the list of exactly one user exactly once, and every key is the cpf or
\* the number stored in the entity it maps to.
C16_ReferentialIntegrity ==
    /\ \A n \in DOMAIN accounts :
           /\ accounts[n].number = n
           /\ accounts[n].owner_cpf \in DOMAIN users
           /\ Cardinality(ListedAt(n)) = 1
    /\ \A c \in DOMAIN users :
           /\ users[c].cpf = c
           /\ \A i \in DOMAIN users[c].accounts :
                  /\ users[c].accounts[i] \in DOMAIN accounts
                  /\ accounts[users[c].accounts[i]].owner_cpf = c

\* two users; one of them owns two accounts and one account holds a
\* transaction
C16_Witness ==
    /\ Cardinality(DOMAIN users) = 2
    /\ \E c \in DOMAIN users : Len(users[c].accounts) = 2
    /\ \E n \in DOMAIN accounts : accounts[n].transactions # << >>

\* what an account holds beside its balance and its log
Identity(a) ==
    <<a.number, a.agency, a.owner_cpf, a.daily_withdraw_limit, a.per_withdraw_limit_value>>

\* the step changes at most the balance and the log of the account n
OnlyBalanceAndLogOf(n) ==
    /\ users' = users
    /\ DOMAIN accounts' = DOMAIN accounts
    /\ \A m \in DOMAIN accounts : m # n => accounts'[m] = accounts[m]
    /\ Identity(accounts'[n]) = Identity(accounts[n])

\* C18: a deposit or withdraw on an account leaves every other account and
\* every user as they were, and of the target account the number, agency,
\* owner and limits: only the balance and the log of the target change.
C18_OnlyTargetChanges ==
    [][\/ BankUnchanged
       \/ /\ op' = "deposit" =>
                 \A n \in DOMAIN accounts, c \in DepositCalls :
                     deposit(n, c[1], c[2]) => OnlyBalanceAndLogOf(n)
          /\ op' = "withdraw" =>
                 \A n \in DOMAIN accounts, c \in WithdrawCalls, stamp \in {today, today + 1} :
                     withdraw(n, c[1], c[2], stamp) => OnlyBalanceAndLogOf(n)]_vars

\* two accounts: one took a deposit and then a withdrawal, the other is as
\* it was created
C18_Witness ==
    /\ op = "withdraw"
    /\ err = "OK"
    /\ \E n, m \in DOMAIN accounts :
           /\ n # m
           /\ Len(accounts[n].transactions) = 2
           /\ accounts[n].balance > 0
           /\ accounts[m] = Account(m, accounts[m].owner_cpf)

\* ------------------------------------------------------------ the menu loop
\* main: one action per menu choice.  An exception of a method is caught at
\* line 306 and the loop goes on with what was assigned before the raise.  A
\* choice that is refused before any method is called (no login, no account
\* selected) or whose input float() rejects changes nothing: a stuttering step.

\* choice 1: create user
Choice1 == \E r \in Registrations :
    create_user(r[1], r[2], r[3]) /\ UNCHANGED session

\* choice 2: login; the first account of the user is selected, or none
Choice2 == \E c \in CPFs, p \in Passwords :
    \/ /\ auth(c, p)
       /\ err' # "OK"
       /\ UNCHANGED session
    \/ /\ auth(c, p)
       /\ err' = "OK"
       /\ users[c].accounts = << >>
       /\ current_user' = UserRef(c)
       /\ current_account' = None
    \/ /\ c \in DOMAIN users
       /\ users[c].password_hash = hash_password(p)
       /\ users[c].accounts # << >>
       /\ get_account(users[c].accounts[1])
       /\ current_user' = UserRef(c)
       /\ current_account' = IF err' = "OK" THEN ret' ELSE current_account

\* choice 3: create account, for the user logged in; it becomes the selected
Choice3 ==
    /\ current_user # None
    /\ create_account(users[current_user.key].cpf)
    /\ err' = "OK" => Cardinality(DOMAIN accounts) < MaxAccounts
    /\ current_account' = IF err' = "OK" THEN ret' ELSE current_account
    /\ UNCHANGED current_user

\* choice 4: select account; the accounts of the user are listed (each is
\* looked up), then the number typed in is looked up and selected
Choice4 == \E sel \in AccountNumbers :
    /\ current_user # None
    /\ users[current_user.key].accounts # << >>
    /\ LET listed == users[current_user.key].accounts
       IN IF \E i \in DOMAIN listed : listed[i] \notin DOMAIN accounts
          THEN /\ op' = "get_account"
               /\ err' = "AccountNotFound"
               /\ ret' = None
               /\ UNCHANGED <<users, accounts, today, file>>
          ELSE get_account(sel)
    /\ current_account' = IF err' = "OK" THEN ret' ELSE current_account
    /\ UNCHANGED current_user

\* choice 5: deposit on the selected account
Choice5 == \E c \in DepositCalls :
    /\ current_account # None
    /\ deposit(current_account.key, c[1], c[2])
    /\ Room(MaxBankTx)
    /\ UNCHANGED session

\* choice 6: withdraw from the selected account
Choice6 == \E c \in WithdrawCalls, stamp \in {today, today + 1} :
    /\ current_account # None
    /\ withdraw(current_account.key, c[1], c[2], stamp)
    /\ Room(MaxBankTx)
    /\ UNCHANGED session

NextMenu ==
    \/ Choice1
    \/ Choice2
    \/ Choice3
    \/ Choice4
    \/ Choice5
    \/ Choice6
    \/ Tick

\* main beside no document: the Bank is empty and nobody is logged in
SpecMenu == Init /\ [][NextMenu]_vars

\* the account selected, if any, is owned by the user logged in
SelectedAccountIsOwn ==
    current_account # None =>
        /\ current_user # None
        /\ accounts[current_account.key].owner_cpf = users[current_user.key].cpf

\* C17: in the menu loop, whenever an account is selected a user is logged
\* in and owns it, so deposit and withdraw from the menu only ever change an
\* account of the user logged in.
C17_MenuActsOnOwnAccount ==
    /\ []SelectedAccountIsOwn
    /\ [][op' \in {"deposit", "withdraw"} =>
             \A n \in DOMAIN accounts :
                 accounts'[n] # accounts[n] =>
                     /\ current_user # None
                     /\ accounts[n].owner_cpf = users[current_user.key].cpf]_vars

\* ---------------------------------------------------- older-document runs
\* A document of an older version: its account record holds neither
\* daily_withdraw_limit nor per_withdraw_limit_value, its transaction no note.
DocOld ==
    LET c == LedgerCpf
        n == LedgerNumber
    IN [users |-> Put(EmptyMap, c,
                      [cpf |-> c, name |-> "Mari",
                       password_hash |-> hash_password("abc123"),
                       accounts |-> <<n>>]),
        accounts |-> Put(EmptyMap, n,
                      [number |-> n, agency |-> DefaultAgency, owner_cpf |-> c,
                       balance |-> 700,
                       transactions |-> <<[kind |-> "DEPOSITO", amount |-> 700,
                                           timestamp |-> <<0, 250>>]>>])]

\* a new Bank beside the older document: it is loaded, then deposit and
\* withdraw are called on the loaded account while the days pass
InitOld ==
    /\ users = EmptyMap
    /\ accounts = EmptyMap
    /\ today = 0
    /\ file = DocOld
    /\ op = "__init__"
    /\ err = "OK"
    /\ ret = None
    /\ current_user = None
    /\ current_account = None

NextOld ==
    \/ load
    \/ LedgerDeposit
    \/ LedgerWithdraw
    \/ Tick

SpecOld == InitOld /\ [][NextOld]_vars

\* the account a as create_account would have made it, with the balance
\* and the log of a
AsNewlyCreated(a) ==
    [Account(a.number, a.owner_cpf) EXCEPT !.balance = a.balance,
                                           !.transactions = a.transactions]

\* C15: load of a document whose account record lacks daily_withdraw_limit
\* or per_withdraw_limit_value gives the account the limits 3 and 500, and
\* withdraw on it then enforces them as on a newly created account.
C15_LoadDefaultsLimits ==
    [][/\ op' = "load" /\ file # NoFile =>
              \A n \in DOMAIN file.accounts :
                  /\ n \in DOMAIN accounts'
                  /\ "daily_withdraw_limit" \notin DOMAIN file.accounts[n]
                         => /\ accounts'[n].daily_withdraw_limit = 3
                            /\ accounts'[n].daily_withdraw_limit =
                                   Account(n, "").daily_withdraw_limit
                  /\ "per_withdraw_limit_value" \notin DOMAIN file.accounts[n]
                         => /\ accounts'[n].per_withdraw_limit_value = 500
                            /\ accounts'[n].per_withdraw_limit_value =
                                   Account(n, "").per_withdraw_limit_value
       /\ \A k \in LedgerCalls :
              IsWithdraw(k) =>
                  /\ err' = withdraw_error(AsNewlyCreated(Acc(k)), Amt(k))
                  /\ Amt(k) > 500 /\ Amt(k) <= Acc(k).balance
                         => err' = "PerOperationLimitExceeded"
                  /\ withdrawals_today(Acc(k)) >= 3 => err' # "OK"
                  /\ (/\ 0 < Amt(k)
                      /\ Amt(k) <= Acc(k).balance
                      /\ Amt(k) <= 500
                      /\ withdrawals_today(Acc(k)) < 3) => err' = "OK"]_vars

\* on the account of the older document a fourth withdrawal of the date was
\* refused
C15_Witness ==
    /\ file = DocOld
    /\ op = "withdraw"
    /\ err = "DailyLimitExceeded"
    /\ \E n \in DOMAIN accounts : withdrawals_today(accounts[n]) = 3

\* cpf is registered and the hash of password is the hash stored for it
CredentialsMatch(cpf, password) ==
    /\ cpf \in DOMAIN users
    /\ users[cpf].password_hash = hash_password(password)

\* C11: auth(cpf, password) returns the stored User of cpf if and only if cpf
\* is registered and the hash of password equals the stored hash; an unknown
\* cpf and a wrong password give the same AuthenticationFailed outcome, and
\* auth changes neither users nor accounts nor the document.
C11_AuthIffCredentialsMatch ==
    [][op' = "auth" =>
          /\ \A c \in CPFs, p \in Passwords :
                 auth(c, p) =>
                     /\ (err' = "OK") <=> CredentialsMatch(c, p)
                     /\ err' = "OK" => ret' = UserRef(c)
                     /\ err' # "OK" => err' = "AuthenticationFailed" /\ ret' = None
          /\ BankUnchanged
          /\ file' = file]_vars

\* both cpfs are registered and an auth call failed: for a wrong password
C11_Witness ==
    /\ Cardinality(DOMAIN users) = 2
    /\ op = "auth"
    /\ err = "AuthenticationFailed"
====
